---- MODULE Spec2Model ----
(***************************************************************************)
(* A model of the signal/slot library in src/sigslot/sigslot.h and of the  *)
(* coroutine tasks of src/sigslot/tasklet.h.                               *)
(*                                                                         *)
(* Spec    : the single_threaded policy (thread::st, the locks are no-ops).*)
(*           Every operation but emit is one step; emit is one step per    *)
(*           loop iteration, and the callable it invokes may itself call   *)
(*           connect / disconnect on the emitting signal or destroy a      *)
(*           slot-owner before the loop goes on.                           *)
(* SpecMT  : the multi_threaded_local policy (thread::mt, one non-recursive*)
(*           pthread mutex per signal and per has_slots), two threads, one *)
(*           step per lock acquisition.                                    *)
(* SpecTask: tasklet<int> objects and the coroutine frames they hold:      *)
(*           create, move, start, get, observer slots on the signals the   *)
(*           accessors return, and bodies that co_return, throw or         *)
(*           co_await another tasklet.                                     *)
(* SpecHandle  : tasklet objects that are copied, moved, move-assigned and *)
(*           destroyed.                                                    *)
(* SpecMTG : the multi_threaded_global policy (thread::mtg, one static     *)
(*           mutex for every object).                                      *)
(* SpecMTRemove, SpecMTCopy: thread::mt with signal disconnect_all and     *)
(*           emit, and with the signal copy constructor.                   *)
(* SpecAwait, SpecOneShot: tasks that await signals, and one-shot          *)
(*           connections, as src/co_example.cc uses them.                  *)
(***************************************************************************)
EXTENDS Integers, Sequences, FiniteSets, TLC

\* Bounds of the model.
MaxSignals == 2
MaxSlots == 2
MaxConns == 4
MaxThreads == 2
MaxTasks == 2
MaxHandles == 2
MaxEmits == 3
MaxRegistered == 3

Signals == 1..MaxSignals
Slots == 1..MaxSlots
Threads == 1..MaxThreads
Tasks == 1..MaxTasks
Handles == 1..MaxHandles
\* The payloads of emit.
Args == {"a", "b"}

\* m_connected_slots.end(): the past-the-end iterator of a std::list.
END == 0

VARIABLES
    sigState,           \* signal -> "unborn" | "live" | "dead"
    slotState,          \* has_slots -> "unborn" | "live" | "dead"
    m_connected_slots,  \* signal -> sequence of connections [id, dest, fn]
    m_senders,          \* has_slots -> set of signals
    nextId,             \* the next connection object to be allocated by new
    em,                 \* the emit call in progress (single_threaded)
    log,                \* the callables invoked by the current / last emit pass
    freed,              \* connections deleted from em.s's list during the pass
    last,               \* the last operation completed and its arguments
    pre,                \* the registries before the last step
    thr,                \* thread -> the call it is in (multi_threaded_local)
    mutex,              \* the pthread mutexes (sig, slot: thread::mt; g: thread::mtg): who holds each
    coro,               \* tasklet object -> its coroutine_handle (a frame or nullptr)
    frame,              \* coroutine frame -> its state and its promise object
    stack,              \* the resume() calls and signal emissions in progress
    tlast,              \* the last call made on a tasklet from outside, its result
    tpre,               \* the frames before that call, when it is start()
    one_shot,           \* the connections registered with one_shot = true
    waiters,            \* signal -> the awaiters registered with it, in order
    wtask,              \* task -> the signal it awaits and what resumed it
    emit_log            \* the emit calls that have returned, in order

objVars == <<sigState, slotState, m_connected_slots, m_senders, nextId>>
stVars == <<em, log, freed, last, pre>>
mtVars == <<thr, mutex>>
tkVars == <<coro, frame, stack, tlast, tpre>>
brVars == <<one_shot, waiters, wtask, emit_log>>
vars == <<sigState, slotState, m_connected_slots, m_senders, nextId,
          em, log, freed, last, pre, thr, mutex,
          coro, frame, stack, tlast, tpre,
          one_shot, waiters, wtask, emit_log>>

LiveSignals == {s \in Signals : sigState[s] = "live"}
LiveSlots == {o \in Slots : slotState[o] = "live"}

\* The two registries as one value, so that an operation is a function on it.
World == [c |-> m_connected_slots, m |-> m_senders]

Range(f) == {f[i] : i \in DOMAIN f}

-----------------------------------------------------------------------------
(* std::list and std::set primitives, as the code uses them.               *)

\* A remove_if that stops at the first match (as std::find + erase would).
RECURSIVE remove_first(_, _)
remove_first(list, o) ==
    IF list = <<>> THEN <<>>
    ELSE IF Head(list).dest = o THEN Tail(list)
         ELSE <<Head(list)>> \o remove_first(Tail(list), o)

\* std::list::remove_if with the predicate x->getdest() == o.
RECURSIVE remove_if(_, _)
remove_if(list, o) ==
    IF list = <<>> THEN <<>>
    ELSE IF Head(list).dest = o THEN remove_if(Tail(list), o)
         ELSE <<Head(list)>> \o remove_if(Tail(list), o)

\* Whether remove_if's predicate set found.
found(list, o) == \E i \in DOMAIN list : list[i].dest = o

\* m_connected_slots.begin(): the first node, or end() on an empty list.
begin(list) == IF list = <<>> THEN END ELSE list[1].id

\* Whether iterator it points at a node that is in the list.
InList(list, it) == \E i \in DOMAIN list : list[i].id = it

\* The connection objects of a registry, in registration order.
Ids(list) == [i \in DOMAIN list |-> list[i].id]

IndexOf(list, it) == CHOOSE i \in DOMAIN list : list[i].id = it

\* An increment that steps over the next node.
increment_twice(list, it) ==
    LET i == IndexOf(list, it)
    IN  IF i + 1 >= Len(list) THEN END ELSE list[i + 2].id

\* ++itNext on an iterator pointing at a node of the list.
increment(list, it) ==
    LET i == IndexOf(list, it)
    IN  IF i = Len(list) THEN END ELSE list[i + 1].id

-----------------------------------------------------------------------------
(* has_slots                                                               *)

\* has_slots::signal_connect: m_senders.insert(sender)
signal_connect(w, o, s) == [w EXCEPT !.m[o] = @ \cup {s}]

\* A signal_disconnect that forgets the erase.
signal_disconnect_no_erase(w, o, s) == w

\* has_slots::signal_disconnect: m_senders.erase(sender)
signal_disconnect(w, o, s) == [w EXCEPT !.m[o] = @ \ {s}]

\* _signal_base::slot_disconnect
slot_disconnect(w, s, o) == [w EXCEPT !.c[s] = remove_if(@, o)]

\* has_slots::disconnect_all: every sender drops the connections to o, then
\* the set is erased.  The senders are independent, so the order of the
\* std::set's iteration does not show in the result.
RECURSIVE has_slots_disconnect_senders(_, _, _)
has_slots_disconnect_senders(w, todo, o) ==
    IF todo = {} THEN w
    ELSE LET i == CHOOSE x \in todo : \A y \in todo : x <= y
         IN  has_slots_disconnect_senders(slot_disconnect(w, i, o), todo \ {i}, o)

\* A disconnect_all that erases the set without telling the senders.
has_slots_disconnect_all_no_notify(w, o) == [w EXCEPT !.m[o] = {}]

has_slots_disconnect_all(w, o) ==
    [has_slots_disconnect_senders(w, w.m[o], o) EXCEPT !.m[o] = {}]

-----------------------------------------------------------------------------
(* _signal_base / signal                                                   *)

\* signal::connect: push_back a new _connection, then pclass->signal_connect.
\* The std::function given to this call is a value of its own: it is named
\* after the connection made for it, and clone() / duplicate() copy the name.
connect(w, s, o, id) ==
    signal_connect([w EXCEPT !.c[s] = Append(@, [id |-> id, dest |-> o, fn |-> id])],
                   o, s)

\* _signal_base::disconnect
disconnect(w, s, o) ==
    IF found(w.c[s], o)
    THEN signal_disconnect([w EXCEPT !.c[s] = remove_if(@, o)], o, s)
    ELSE w

\* _signal_base::disconnect_all: the loop over the connections, then erase.
RECURSIVE disconnect_all_loop(_, _, _)
disconnect_all_loop(w, s, rest) ==
    IF rest = <<>> THEN w
    ELSE disconnect_all_loop(signal_disconnect(w, Head(rest).dest, s), s, Tail(rest))

\* A disconnect_all that erases the list without telling the targets.
disconnect_all_no_notify(w, s) == [w EXCEPT !.c[s] = <<>>]

disconnect_all(w, s) ==
    [disconnect_all_loop(w, s, w.c[s]) EXCEPT !.c[s] = <<>>]

\* _signal_base(const _signal_base& s): for each connection of the source,
\* getdest()->signal_connect(this) and push_back(clone()).
RECURSIVE signal_copy_loop(_, _, _, _)
signal_copy_loop(w, n, rest, id) ==
    IF rest = <<>> THEN w
    ELSE LET i == Head(rest)
             w1 == signal_connect(w, i.dest, n)
             w2 == [w1 EXCEPT !.c[n] = Append(@, [id |-> id, dest |-> i.dest, fn |-> i.fn])]
         IN  signal_copy_loop(w2, n, Tail(rest), id + 1)

\* A copy constructor that clones the connections without registering the
\* copy with their targets.
signal_copy_no_connect(w, src, n, id) ==
    [w EXCEPT !.c[n] = [i \in DOMAIN w.c[src] |->
                           [id |-> id + i - 1, dest |-> w.c[src][i].dest,
                            fn |-> w.c[src][i].fn]]]

signal_copy(w, src, n, id) == signal_copy_loop(w, n, w.c[src], id)

\* _signal_base::slot_duplicate: the range-for walks the list it appends to,
\* so it also visits the duplicates it has pushed.
RECURSIVE slot_duplicate_walk(_, _, _, _, _)
slot_duplicate_walk(list, i, old, new, id) ==
    IF i > Len(list) THEN list
    ELSE IF list[i].dest = old
         THEN slot_duplicate_walk(
                  Append(list, [id |-> id, dest |-> new, fn |-> list[i].fn]),
                  i + 1, old, new, id + 1)
         ELSE slot_duplicate_walk(list, i + 1, old, new, id)

\* A slot_duplicate that stops after the first connection it duplicates.
slot_duplicate_first(w, s, old, new, id) ==
    IF found(w.c[s], old)
    THEN LET i == CHOOSE j \in DOMAIN w.c[s] :
                      /\ w.c[s][j].dest = old
                      /\ \A k \in 1..(j - 1) : w.c[s][k].dest # old
         IN  [w EXCEPT !.c[s] = Append(@, [id |-> id, dest |-> new,
                                           fn |-> w.c[s][i].fn])]
    ELSE w

slot_duplicate(w, s, old, new, id) ==
    [w EXCEPT !.c[s] = slot_duplicate_walk(@, 1, old, new, id)]

\* has_slots(const has_slots& hs): for each sender, slot_duplicate then insert.
RECURSIVE has_slots_copy_loop(_, _, _, _, _)
has_slots_copy_loop(w, todo, old, new, id) ==
    IF todo = {} THEN w
    ELSE LET i == CHOOSE x \in todo : \A y \in todo : x <= y
             w1 == slot_duplicate(w, i, old, new, id)
             w2 == [w1 EXCEPT !.m[new] = @ \cup {i}]
         IN  has_slots_copy_loop(w2, todo \ {i}, old, new,
                                 id + (Len(w1.c[i]) - Len(w.c[i])))

has_slots_copy(w, old, new, id) == has_slots_copy_loop(w, w.m[old], old, new, id)

\* The number of connections (in all registries) that target o.
RECURSIVE CountDest(_, _)
CountDest(list, o) ==
    IF list = <<>> THEN 0
    ELSE (IF Head(list).dest = o THEN 1 ELSE 0) + CountDest(Tail(list), o)

RECURSIVE SumDest(_, _, _)
SumDest(w, sigs, o) ==
    IF sigs = {} THEN 0
    ELSE LET s == CHOOSE x \in sigs : TRUE
         IN  CountDest(w.c[s], o) + SumDest(w, sigs \ {s}, o)

-----------------------------------------------------------------------------
(* The single_threaded program: operations called from the top level.      *)

Idle == [st |-> "idle", s |-> 0, arg |-> "a", it |-> END,
         start |-> <<>>, live0 |-> {}, id0 |-> 0]

NoThread == [op |-> "idle", pc |-> "idle", s |-> 0, o |-> 0, iter |-> {},
             it |-> END, n |-> 0]

Op(name, s, o, n) == [op |-> name, s |-> s, o |-> o, n |-> n]

\* tasklet(): coro(nullptr); the empty coroutine_handle.
nullptr == 0

\* promise_type(): value(); the value-initialised T of a tasklet<int>.
value_init == 0

\* The values a coroutine body co_returns and the errors it throws.
Values == {7}
Errors == {"e1", "e2"}

\* std::exception_ptr{}: no exception captured.
NoError == "none"

\* What a call or a co_await yields: a value, a rethrown exception, a
\* std::logic_error thrown by the tasklet itself, or nothing (void).
Val(v) == [k |-> "value", v |-> v, e |-> NoError]
Raise(e) == [k |-> "raise", v |-> value_init, e |-> e]
LogicError == [k |-> "logic_error", v |-> value_init, e |-> NoError]
Nothing == [k |-> "none", v |-> value_init, e |-> NoError]

\* The awaitable of operator co_await: the tasklet it refers to (task, a
\* reference to the tasklet object) and whether await_suspend has stored
\* the awaiting coroutine_handle.
NoAwait == [task |-> nullptr, awaiting |-> FALSE]

\* A coroutine frame that has not been allocated: the promise as its
\* constructor leaves it.  promise_type declares name, eptr, complete and
\* exception again, so the promise holds two of each: those of
\* promise_type_base (base_eptr, sig.base_complete, sig.base_exception) and
\* those of promise_type (eptr, sig.complete, sig.exception).
\* fired, hist: what the observer slots have received, and the last
\* co_await of the body (the frame awaited, whether that frame was at its
\* final suspend point, whether the body suspended).
NoFrame ==
    [st |-> "unborn", value |-> value_init,
     base_eptr |-> NoError, eptr |-> NoError,
     sig |-> [base_complete |-> <<>>, base_exception |-> <<>>,
              complete |-> <<>>, exception |-> <<>>],
     aw |-> NoAwait, obs |-> Nothing,
     fired |-> [complete |-> 0, exception |-> <<>>],
     hist |-> [target |-> nullptr, ready |-> FALSE, suspended |-> FALSE]]

NoFrames == [c \in Tasks |-> NoFrame]

\* A call made on a tasklet from outside any coroutine.
TOp(name, h, c, res) == [op |-> name, h |-> h, c |-> c, res |-> res]

\* A task that has not yet awaited a signal.
NoWait == [st |-> "created", sig |-> 0, since |-> 0, by |-> 0, payload |-> "none"]

\* No connection is one-shot, no task awaits a signal, no emit has returned.
InitAwait ==
    /\ one_shot = {}
    /\ waiters = [s \in Signals |-> <<>>]
    /\ wtask = [k \in Tasks |-> NoWait]
    /\ emit_log = <<>>

\* No tasklet holds a coroutine and no coroutine function has been called.
InitTasklet ==
    /\ coro = [h \in Handles |-> nullptr]
    /\ frame = NoFrames
    /\ stack = <<>>
    /\ tlast = TOp("none", 0, nullptr, Nothing)
    /\ tpre = NoFrames

Init ==
    /\ InitTasklet
    /\ InitAwait
    /\ sigState = [s \in Signals |-> "unborn"]
    /\ slotState = [o \in Slots |-> "unborn"]
    /\ m_connected_slots = [s \in Signals |-> <<>>]
    /\ m_senders = [o \in Slots |-> {}]
    /\ nextId = 1
    /\ em = Idle
    /\ log = <<>>
    /\ freed = {}
    /\ pre = [c |-> [s \in Signals |-> <<>>], m |-> [o \in Slots |-> {}]]
    /\ last = Op("none", 0, 0, 0)
    /\ thr = [t \in Threads |-> NoThread]
    /\ mutex = [sig |-> [s \in Signals |-> 0], slot |-> [o \in Slots |-> 0],
                g |-> 0]

\* No call is in progress: the program is between two top-level statements.
TopLevel == em.st \in {"idle", "done"}

\* A completed top-level operation that leaves the registries as w2.
Complete(w2, op) ==
    /\ m_connected_slots' = w2.c
    /\ m_senders' = w2.m
    /\ pre' = World
    /\ last' = op
    /\ em' = Idle
    /\ log' = <<>>
    /\ freed' = {}
    /\ UNCHANGED <<mtVars, tkVars, brVars>>

\* signal::signal()
NewSignal ==
    /\ TopLevel
    /\ \E n \in Signals :
        /\ sigState[n] = "unborn"
        /\ \A x \in Signals : x < n => sigState[x] # "unborn"
        /\ sigState' = [sigState EXCEPT ![n] = "live"]
        /\ Complete(World, Op("new_signal", n, 0, 0))
    /\ UNCHANGED <<slotState, nextId>>

\* has_slots::has_slots()
NewSlot ==
    /\ TopLevel
    /\ \E n \in Slots :
        /\ slotState[n] = "unborn"
        /\ \A x \in Slots : x < n => slotState[x] # "unborn"
        /\ slotState' = [slotState EXCEPT ![n] = "live"]
        /\ Complete(World, Op("new_slot", 0, n, 0))
    /\ UNCHANGED <<sigState, nextId>>

\* s.connect(&o, fn)
Connect(s, o) ==
    /\ TopLevel
    /\ sigState[s] = "live" /\ slotState[o] = "live"
    /\ nextId <= MaxConns
    /\ nextId' = nextId + 1
    /\ Complete(connect(World, s, o, nextId), Op("connect", s, o, 0))
    /\ UNCHANGED <<sigState, slotState>>

\* s.disconnect(&o)
Disconnect(s, o) ==
    /\ TopLevel
    /\ sigState[s] = "live" /\ slotState[o] = "live"
    /\ Complete(disconnect(World, s, o), Op("disconnect", s, o, 0))
    /\ UNCHANGED <<sigState, slotState, nextId>>

\* s.disconnect_all()
SignalDisconnectAll(s) ==
    /\ TopLevel
    /\ sigState[s] = "live"
    /\ Complete(disconnect_all(World, s), Op("disconnect_all", s, 0, 0))
    /\ UNCHANGED <<sigState, slotState, nextId>>

\* ~_signal_base(): disconnect_all(), then the signal is gone.
DestroySignal(s) ==
    /\ TopLevel
    /\ sigState[s] = "live"
    /\ sigState' = [sigState EXCEPT ![s] = "dead"]
    /\ Complete(disconnect_all(World, s), Op("destroy_signal", s, 0, 0))
    /\ UNCHANGED <<slotState, nextId>>

\* o.disconnect_all()
SlotDisconnectAll(o) ==
    /\ TopLevel
    /\ slotState[o] = "live"
    /\ Complete(has_slots_disconnect_all(World, o), Op("slot_disconnect_all", 0, o, 0))
    /\ UNCHANGED <<sigState, slotState, nextId>>

\* ~has_slots(): disconnect_all(), then the slot-owner is gone.
DestroySlot(o) ==
    /\ TopLevel
    /\ slotState[o] = "live"
    /\ slotState' = [slotState EXCEPT ![o] = "dead"]
    /\ Complete(has_slots_disconnect_all(World, o), Op("destroy_slot", 0, o, 0))
    /\ UNCHANGED <<sigState, nextId>>

\* signal n(src): the copy constructor.
CopySignal(src) ==
    /\ TopLevel
    /\ sigState[src] = "live"
    /\ nextId + Len(m_connected_slots[src]) <= MaxConns + 1
    /\ \E n \in Signals :
        /\ sigState[n] = "unborn"
        /\ \A x \in Signals : x < n => sigState[x] # "unborn"
        /\ sigState' = [sigState EXCEPT ![n] = "live"]
        /\ Complete(signal_copy(World, src, n, nextId), Op("copy_signal", src, 0, n))
    /\ nextId' = nextId + Len(m_connected_slots[src])
    /\ UNCHANGED slotState

\* has_slots n(old): the copy constructor.
CopySlot(old) ==
    /\ TopLevel
    /\ slotState[old] = "live"
    /\ nextId + SumDest(World, m_senders[old], old) <= MaxConns + 1
    /\ \E n \in Slots :
        /\ slotState[n] = "unborn"
        /\ \A x \in Slots : x < n => slotState[x] # "unborn"
        /\ slotState' = [slotState EXCEPT ![n] = "live"]
        /\ Complete(has_slots_copy(World, old, n, nextId), Op("copy_slot", 0, old, n))
    /\ nextId' = nextId + SumDest(World, m_senders[old], old)
    /\ UNCHANGED sigState

-----------------------------------------------------------------------------
(* signal::emit, one step per iteration of its while loop.                 *)

\* emit(a) up to the first test of the loop: it = begin(), itEnd = end().
EmitBegin(s, a) ==
    /\ TopLevel
    /\ sigState[s] = "live"
    /\ em' = [st |-> IF m_connected_slots[s] = <<>> THEN "done" ELSE "run",
              s |-> s, arg |-> a, it |-> begin(m_connected_slots[s]),
              start |-> m_connected_slots[s], live0 |-> LiveSlots, id0 |-> nextId]
    /\ log' = <<>>
    /\ freed' = {}
    /\ pre' = World
    /\ last' = Op("emit", s, 0, 0)
    /\ UNCHANGED <<objVars, mtVars, tkVars, brVars>>

\* One iteration with it at a node of the list: itNext = it; ++itNext;
\* (*it)->emit(a); it = itNext.  The callable does `act` (on slot-owner ao)
\* before it returns, which leaves the registries as w2.
Iterate(w2, act, ao) ==
    LET list == m_connected_slots[em.s]
        c == list[IndexOf(list, em.it)]
        itNext == increment(list, em.it)
    IN  /\ em.st = "run"
        /\ InList(list, em.it)
        /\ log' = Append(log, [id |-> c.id, dest |-> c.dest, fn |-> c.fn,
                               arg |-> em.arg, stale |-> FALSE,
                               act |-> act, ao |-> ao,
                               mut |-> (w2.c[em.s] # list)])
        /\ m_connected_slots' = w2.c
        /\ m_senders' = w2.m
        /\ freed' = freed \cup
                {[id |-> x.id, dest |-> x.dest, fn |-> x.fn,
                  next |-> increment(list, x.id)] :
                    x \in Range(list) \ Range(w2.c[em.s])}
        /\ em' = [em EXCEPT !.it = itNext,
                            !.st = IF itNext = END THEN "done" ELSE "run"]
        /\ pre' = World
        /\ pre' = World
    /\ last' = Op("callback", em.s, ao, 0)
        /\ UNCHANGED <<mtVars, tkVars, brVars>>

\* The callable only reads its argument.
EmitStepNop ==
    /\ Iterate(World, "nop", 0)
    /\ UNCHANGED <<sigState, slotState, nextId>>

\* The callable calls em.s.disconnect(&o).
EmitStepDisconnect(o) ==
    /\ slotState[o] = "live"
    /\ Iterate(disconnect(World, em.s, o), "disconnect", o)
    /\ UNCHANGED <<sigState, slotState, nextId>>

\* The callable calls em.s.connect(&o, fn).
EmitStepConnect(o) ==
    /\ slotState[o] = "live"
    /\ nextId <= MaxConns
    /\ Iterate(connect(World, em.s, o, nextId), "connect", o)
    /\ nextId' = nextId + 1
    /\ UNCHANGED <<sigState, slotState>>

\* The callable destroys slot-owner o (delete this, or another owner).
EmitStepDestroy(o) ==
    /\ slotState[o] = "live"
    /\ Iterate(has_slots_disconnect_all(World, o), "destroy", o)
    /\ slotState' = [slotState EXCEPT ![o] = "dead"]
    /\ UNCHANGED <<sigState, nextId>>

\* it points at a list node that has been erased and freed.  Reading it is
\* undefined behaviour; one outcome is that the program crashes.
EmitDanglingCrash ==
    /\ em.st = "run"
    /\ ~InList(m_connected_slots[em.s], em.it)
    /\ em' = [em EXCEPT !.st = "crashed"]
    /\ pre' = World
    /\ last' = Op("callback", em.s, 0, 0)
    /\ UNCHANGED <<objVars, log, freed, mtVars, tkVars, brVars>>

\* The other outcome: the freed node and the deleted connection still hold
\* their bytes, so the deleted connection's callable runs and the loop goes
\* on from the next pointer the node had when it was unlinked.
EmitDanglingInvoke ==
    /\ em.st = "run"
    /\ ~InList(m_connected_slots[em.s], em.it)
    /\ \E c \in freed :
        /\ c.id = em.it
        /\ log' = Append(log, [id |-> c.id, dest |-> c.dest, fn |-> c.fn,
                               arg |-> em.arg, stale |-> TRUE,
                               act |-> "nop", ao |-> 0, mut |-> FALSE])
        /\ em' = [em EXCEPT !.it = c.next,
                            !.st = IF c.next = END THEN "done" ELSE "run"]
    /\ pre' = World
    /\ last' = Op("callback", em.s, 0, 0)
    /\ UNCHANGED <<objVars, freed, mtVars, tkVars, brVars>>

Next ==
    \/ NewSignal
    \/ NewSlot
    \/ \E s \in Signals, o \in Slots : Connect(s, o)
    \/ \E s \in Signals, o \in Slots : Disconnect(s, o)
    \/ \E s \in Signals : SignalDisconnectAll(s)
    \/ \E s \in Signals : DestroySignal(s)
    \/ \E o \in Slots : SlotDisconnectAll(o)
    \/ \E o \in Slots : DestroySlot(o)
    \/ \E s \in Signals : CopySignal(s)
    \/ \E o \in Slots : CopySlot(o)
    \/ \E s \in Signals, a \in Args : EmitBegin(s, a)
    \/ EmitStepNop
    \/ \E o \in Slots : EmitStepDisconnect(o)
    \/ \E o \in Slots : EmitStepConnect(o)
    \/ \E o \in Slots : EmitStepDestroy(o)
    \/ EmitDanglingCrash
    \/ EmitDanglingInvoke

Spec == Init /\ [][Next]_vars

-----------------------------------------------------------------------------
(* The multi_threaded_local program: every signal and every has_slots has  *)
(* a pthread mutex of its own (thread::mt), initialised with default       *)
(* attributes, and lock_block holds it for the length of a member function.*)
(* A thread takes one step per lock it has to acquire; what it does while  *)
(* it holds the lock, up to the next acquisition, belongs to the step.     *)

InitMT ==
    /\ InitTasklet
    /\ InitAwait
    /\ sigState = [s \in Signals |-> "live"]
    /\ slotState = [o \in Slots |-> "live"]
    /\ m_connected_slots = [s \in Signals |-> <<>>]
    /\ m_senders = [o \in Slots |-> {}]
    /\ nextId = 1
    /\ em = Idle
    /\ log = <<>>
    /\ freed = {}
    /\ last = Op("none", 0, 0, 0)
    /\ pre = [c |-> [s \in Signals |-> <<>>], m |-> [o \in Slots |-> {}]]
    /\ thr = [t \in Threads |-> NoThread]
    /\ mutex = [sig |-> [s \in Signals |-> 0], slot |-> [o \in Slots |-> 0],
                g |-> 0]

\* A lock() that leaves the mutex free.
lock_sig_free(t, s) == mutex

\* mt::lock() on a signal's mutex: pthread_mutex_lock returns once it is free.
lock_sig(t, s) == [mutex EXCEPT !.sig[s] = t]
\* mt::unlock() on a signal's mutex.
unlock_sig(s) == [mutex EXCEPT !.sig[s] = 0]

\* The registries after a step of a thread.
SetWorld(w2) ==
    /\ m_connected_slots' = w2.c
    /\ m_senders' = w2.m

\* Thread t enters s.connect(&o, fn), s.disconnect(&o), o.disconnect_all()
\* or ~has_slots() of o: it stands before the lock_block of the function.
MTCall(t, op, s, o) ==
    /\ thr[t].pc = "idle"
    /\ op \in {"connect", "disconnect", "slot_disconnect_all", "destroy_slot"}
    /\ IF op \in {"connect", "disconnect"}
       THEN s \in Signals /\ sigState[s] = "live"
       ELSE s = 0
    /\ slotState[o] = "live"
    \* A slot-owner is destroyed once, and not while its own disconnect_all runs.
    /\ op \in {"slot_disconnect_all", "destroy_slot"} =>
         \A u \in Threads : thr[u].op = "destroy_slot" => thr[u].o # o
    /\ op = "destroy_slot" =>
         \A u \in Threads : thr[u].op = "slot_disconnect_all" => thr[u].o # o
    \* The bound on the connection objects ever allocated.
    /\ op = "connect" =>
         nextId + Cardinality({u \in Threads : thr[u].pc = "lock_connect"})
           <= MaxConns
    /\ thr' = [thr EXCEPT ![t] =
                 [op |-> op, s |-> s, o |-> o, iter |-> {}, it |-> END, n |-> 0,
                  pc |-> CASE op = "connect" -> "lock_connect"
                           [] op = "disconnect" -> "lock_disconnect"
                           [] OTHER -> "lock_slot"]]
    /\ UNCHANGED <<objVars, stVars, tkVars, brVars, mutex>>

\* signal::connect: lock_block lock(this); new _connection; push_back.
\* It goes on to pclass->signal_connect(this), holding the signal's mutex.
MTConnectLock(t) ==
    /\ thr[t].pc = "lock_connect"
    /\ mutex.sig[thr[t].s] = 0
    /\ mutex' = lock_sig(t, thr[t].s)
    /\ m_connected_slots' = [m_connected_slots EXCEPT ![thr[t].s] =
           Append(@, [id |-> nextId, dest |-> thr[t].o, fn |-> nextId])]
    /\ nextId' = nextId + 1
    /\ thr' = [thr EXCEPT ![t].pc = "signal_connect"]
    /\ UNCHANGED <<sigState, slotState, m_senders, stVars, tkVars, brVars>>

\* has_slots::signal_connect, called by connect: lock_block lock(this);
\* m_senders.insert(sender); unlock.  The slot-owner's memory is used whether
\* or not the slot-owner has been destroyed meanwhile.
MTSignalConnect(t) ==
    /\ thr[t].pc = "signal_connect"
    /\ mutex.slot[thr[t].o] = 0
    /\ SetWorld(signal_connect(World, thr[t].o, thr[t].s))
    /\ thr' = [thr EXCEPT ![t].pc = "unlock_sig"]
    /\ UNCHANGED <<sigState, slotState, nextId, stVars, tkVars, brVars, mutex>>

\* _signal_base::disconnect: lock_block lock(this); remove_if; then, if a
\* connection was found, pclass->signal_disconnect(this) under the lock.
MTDisconnectLock(t) ==
    /\ thr[t].pc = "lock_disconnect"
    /\ mutex.sig[thr[t].s] = 0
    /\ mutex' = lock_sig(t, thr[t].s)
    /\ m_connected_slots' = [m_connected_slots EXCEPT ![thr[t].s] =
                                remove_if(@, thr[t].o)]
    /\ thr' = [thr EXCEPT ![t].pc =
                 IF found(m_connected_slots[thr[t].s], thr[t].o)
                 THEN "signal_disconnect" ELSE "unlock_sig"]
    /\ UNCHANGED <<sigState, slotState, m_senders, nextId, stVars, tkVars, brVars>>

\* has_slots::signal_disconnect, called by disconnect: lock_block lock(this);
\* m_senders.erase(sender); unlock.
MTSignalDisconnect(t) ==
    /\ thr[t].pc = "signal_disconnect"
    /\ mutex.slot[thr[t].o] = 0
    /\ SetWorld(signal_disconnect(World, thr[t].o, thr[t].s))
    /\ thr' = [thr EXCEPT ![t].pc = "unlock_sig"]
    /\ UNCHANGED <<sigState, slotState, nextId, stVars, tkVars, brVars, mutex>>

\* ~lock_block at the end of connect / disconnect: the call returns.
MTUnlockSig(t) ==
    /\ thr[t].pc = "unlock_sig"
    /\ mutex' = unlock_sig(thr[t].s)
    /\ thr' = [thr EXCEPT ![t] = NoThread]
    /\ UNCHANGED <<objVars, stVars, tkVars, brVars>>

\* A thread that reaches into a slot-owner another thread has destroyed
\* uses freed memory: besides going on as above, the program may crash.
MTUseAfterDestroy(t) ==
    /\ thr[t].pc \in {"signal_connect", "signal_disconnect"}
    /\ slotState[thr[t].o] = "dead"
    /\ thr' = [thr EXCEPT ![t].pc = "crashed"]
    /\ UNCHANGED <<objVars, stVars, tkVars, brVars, mutex>>

\* has_slots::disconnect_all: lock_block lock(this); the range-for over
\* m_senders starts.
MTSlotLock(t) ==
    /\ thr[t].pc = "lock_slot"
    /\ mutex.slot[thr[t].o] = 0
    /\ mutex' = [mutex EXCEPT !.slot[thr[t].o] = t]
    /\ thr' = [thr EXCEPT ![t].pc = "senders_loop", ![t].iter = m_senders[thr[t].o]]
    /\ UNCHANGED <<objVars, stVars, tkVars, brVars>>

\* One iteration: i->slot_disconnect(this), which locks the signal, removes
\* the connections to this slot-owner and unlocks (std::set iterates in
\* ascending order).
MTSlotDisconnectSender(t) ==
    /\ thr[t].pc = "senders_loop"
    /\ thr[t].iter # {}
    /\ LET i == CHOOSE x \in thr[t].iter : \A y \in thr[t].iter : x <= y
       IN  /\ mutex.sig[i] = 0
           /\ SetWorld(slot_disconnect(World, i, thr[t].o))
           /\ thr' = [thr EXCEPT ![t].iter = @ \ {i}]
    /\ UNCHANGED <<sigState, slotState, nextId, stVars, tkVars, brVars, mutex>>

\* The loop is over: m_senders.erase(begin, end); ~lock_block; and, in the
\* destructor, the slot-owner is gone.
MTSlotErase(t) ==
    /\ thr[t].pc = "senders_loop"
    /\ thr[t].iter = {}
    /\ m_senders' = [m_senders EXCEPT ![thr[t].o] = {}]
    /\ mutex' = [mutex EXCEPT !.slot[thr[t].o] = 0]
    /\ slotState' = IF thr[t].op = "destroy_slot"
                    THEN [slotState EXCEPT ![thr[t].o] = "dead"] ELSE slotState
    /\ thr' = [thr EXCEPT ![t] = NoThread]
    /\ UNCHANGED <<sigState, m_connected_slots, nextId, stVars, tkVars, brVars>>

\* Thread t enters s.emit(a): it stands before the lock_block of emit.
MTEmitCall(t, s) ==
    /\ thr[t].pc = "idle"
    /\ sigState[s] = "live"
    /\ thr' = [thr EXCEPT ![t] = [NoThread EXCEPT !.op = "emit", !.s = s,
                                                  !.pc = "lock_emit"]]
    /\ UNCHANGED <<objVars, stVars, tkVars, brVars, mutex>>

\* signal::emit: lock_block lock(this); it = m_connected_slots.begin().
MTEmitLock(t) ==
    /\ thr[t].pc = "lock_emit"
    /\ mutex.sig[thr[t].s] = 0
    /\ mutex' = lock_sig(t, thr[t].s)
    /\ thr' = [thr EXCEPT ![t].pc = "emit_loop",
                          ![t].it = begin(m_connected_slots[thr[t].s])]
    /\ UNCHANGED <<objVars, stVars, tkVars, brVars>>

\* One iteration whose callable returns without calling into the signal:
\* itNext = it; ++itNext; (*it)->emit(a...); it = itNext.
MTEmitInvoke(t) ==
    /\ thr[t].pc = "emit_loop"
    /\ thr[t].it # END
    /\ thr' = [thr EXCEPT ![t].it = increment(m_connected_slots[thr[t].s], @)]
    /\ UNCHANGED <<objVars, stVars, tkVars, brVars, mutex>>

\* One iteration whose callable calls connect(&o, fn) or disconnect(&o) on
\* the signal being emitted: the thread, which holds the signal's mutex as
\* the lock_block of emit, stands before the lock_block of the callee.
\* pthread_mutex_init(&m_mutex, NULL) makes a default mutex, which a thread
\* that owns it cannot lock again.
MTEmitCallback(t, op, o) ==
    /\ thr[t].pc = "emit_loop"
    /\ thr[t].it # END
    /\ op \in {"connect", "disconnect"}
    /\ slotState[o] = "live"
    /\ op = "connect" =>
         nextId + Cardinality({u \in Threads : thr[u].pc = "lock_connect"})
           <= MaxConns
    /\ thr' = [thr EXCEPT ![t].o = o,
                          ![t].pc = IF op = "connect" THEN "lock_connect"
                                                      ELSE "lock_disconnect"]
    /\ UNCHANGED <<objVars, stVars, tkVars, brVars, mutex>>

\* it == itEnd: ~lock_block; emit returns.
MTEmitUnlock(t) ==
    /\ thr[t].pc = "emit_loop"
    /\ thr[t].it = END
    /\ mutex' = unlock_sig(thr[t].s)
    /\ thr' = [thr EXCEPT ![t] = NoThread]
    /\ UNCHANGED <<objVars, stVars, tkVars, brVars>>

NextMT ==
    \/ \E t \in Threads, s \in Signals \cup {0}, o \in Slots :
         \E op \in {"connect", "disconnect", "slot_disconnect_all", "destroy_slot"} :
           MTCall(t, op, s, o)
    \/ \E t \in Threads : MTConnectLock(t)
    \/ \E t \in Threads : MTSignalConnect(t)
    \/ \E t \in Threads : MTDisconnectLock(t)
    \/ \E t \in Threads : MTSignalDisconnect(t)
    \/ \E t \in Threads : MTUnlockSig(t)
    \/ \E t \in Threads : MTUseAfterDestroy(t)
    \/ \E t \in Threads : MTSlotLock(t)
    \/ \E t \in Threads : MTSlotDisconnectSender(t)
    \/ \E t \in Threads : MTSlotErase(t)
    \/ \E t \in Threads, s \in Signals : MTEmitCall(t, s)
    \/ \E t \in Threads : MTEmitLock(t)
    \/ \E t \in Threads : MTEmitInvoke(t)
    \/ \E t \in Threads, o \in Slots :
         \E op \in {"connect", "disconnect"} : MTEmitCallback(t, op, o)
    \/ \E t \in Threads : MTEmitUnlock(t)

SpecMT == InitMT /\ [][NextMT]_vars

\* Thread t enters s.disconnect_all(): it stands before its lock_block.
MTDisconnectAllCall(t, s) ==
    /\ thr[t].pc = "idle"
    /\ sigState[s] = "live"
    /\ thr' = [thr EXCEPT ![t] = [NoThread EXCEPT !.op = "disconnect_all", !.s = s,
                                                  !.pc = "lock_disconnect_all"]]
    /\ UNCHANGED <<objVars, stVars, tkVars, brVars, mutex>>

\* _signal_base::disconnect_all: lock_block lock(this); the range-for over
\* m_connected_slots starts.
MTDisconnectAllLock(t) ==
    /\ thr[t].pc = "lock_disconnect_all"
    /\ mutex.sig[thr[t].s] = 0
    /\ mutex' = lock_sig(t, thr[t].s)
    /\ thr' = [thr EXCEPT ![t].pc = "disconnect_all_loop",
                          ![t].it = begin(m_connected_slots[thr[t].s])]
    /\ UNCHANGED <<objVars, stVars, tkVars, brVars>>

\* One iteration: i->getdest()->signal_disconnect(this), which locks the
\* slot-owner, erases the signal from m_senders and unlocks; delete i.
MTDisconnectAllStep(t) ==
    /\ thr[t].pc = "disconnect_all_loop"
    /\ thr[t].it # END
    /\ LET list == m_connected_slots[thr[t].s]
           node == list[IndexOf(list, thr[t].it)]
       IN  /\ mutex.slot[node.dest] = 0
           /\ SetWorld(signal_disconnect(World, node.dest, thr[t].s))
           /\ thr' = [thr EXCEPT ![t].it = increment(list, @)]
    /\ UNCHANGED <<sigState, slotState, nextId, stVars, tkVars, brVars, mutex>>

\* The loop is over: m_connected_slots.erase(begin, end); ~lock_block.
MTDisconnectAllErase(t) ==
    /\ thr[t].pc = "disconnect_all_loop"
    /\ thr[t].it = END
    /\ m_connected_slots' = [m_connected_slots EXCEPT ![thr[t].s] = <<>>]
    /\ mutex' = unlock_sig(thr[t].s)
    /\ thr' = [thr EXCEPT ![t] = NoThread]
    /\ UNCHANGED <<sigState, slotState, m_senders, nextId, stVars, tkVars, brVars>>

\* Threads that connect, disconnect, disconnect_all and emit.
NextMTRemove ==
    \/ \E t \in Threads, s \in Signals, o \in Slots :
         \E op \in {"connect", "disconnect"} : MTCall(t, op, s, o)
    \/ \E t \in Threads : MTConnectLock(t)
    \/ \E t \in Threads : MTSignalConnect(t)
    \/ \E t \in Threads : MTDisconnectLock(t)
    \/ \E t \in Threads : MTSignalDisconnect(t)
    \/ \E t \in Threads : MTUnlockSig(t)
    \/ \E t \in Threads, s \in Signals : MTDisconnectAllCall(t, s)
    \/ \E t \in Threads : MTDisconnectAllLock(t)
    \/ \E t \in Threads : MTDisconnectAllStep(t)
    \/ \E t \in Threads : MTDisconnectAllErase(t)
    \/ \E t \in Threads, s \in Signals : MTEmitCall(t, s)
    \/ \E t \in Threads : MTEmitLock(t)
    \/ \E t \in Threads : MTEmitInvoke(t)
    \/ \E t \in Threads : MTEmitUnlock(t)

SpecMTRemove == InitMT /\ [][NextMTRemove]_vars

\* One signal has been constructed, the others are still to be made as
\* copies; every slot-owner has been constructed.
InitMTCopy ==
    /\ InitTasklet
    /\ InitAwait
    /\ sigState = [s \in Signals |-> IF s = 1 THEN "live" ELSE "unborn"]
    /\ slotState = [o \in Slots |-> "live"]
    /\ m_connected_slots = [s \in Signals |-> <<>>]
    /\ m_senders = [o \in Slots |-> {}]
    /\ nextId = 1
    /\ em = Idle
    /\ log = <<>>
    /\ freed = {}
    /\ last = Op("none", 0, 0, 0)
    /\ pre = [c |-> [s \in Signals |-> <<>>], m |-> [o \in Slots |-> {}]]
    /\ thr = [t \in Threads |-> NoThread]
    /\ mutex = [sig |-> [s \in Signals |-> 0], slot |-> [o \in Slots |-> 0],
                g |-> 0]

\* Thread t constructs signal n as a copy of src: mt(const mt&) initialises
\* the mutex of n, lock_block lock(this) locks it -- the mutex of src is not
\* touched -- and the range-for takes s.m_connected_slots.begin().
MTCopyCall(t, src) ==
    /\ thr[t].pc = "idle"
    /\ sigState[src] = "live"
    /\ nextId + Len(m_connected_slots[src]) <= MaxConns
    /\ \E n \in Signals :
         /\ sigState[n] = "unborn"
         /\ \A x \in Signals : x < n => sigState[x] # "unborn"
         /\ sigState' = [sigState EXCEPT ![n] = "constructing"]
         /\ mutex' = lock_sig(t, n)
         /\ thr' = [thr EXCEPT ![t] =
                      [NoThread EXCEPT !.op = "copy", !.s = src, !.n = n,
                                       !.pc = "copy_loop",
                                       !.it = begin(m_connected_slots[src])]]
    /\ UNCHANGED <<slotState, m_connected_slots, m_senders, nextId,
                   stVars, tkVars, brVars>>

\* One iteration on a node that is in the source's list:
\* i->getdest()->signal_connect(this), which locks the slot-owner, inserts
\* the new signal and unlocks; m_connected_slots.push_back(i->clone()); ++it.
MTCopyStep(t) ==
    /\ thr[t].pc = "copy_loop"
    /\ thr[t].it # END
    /\ InList(m_connected_slots[thr[t].s], thr[t].it)
    /\ LET list == m_connected_slots[thr[t].s]
           node == list[IndexOf(list, thr[t].it)]
           n == thr[t].n
       IN  /\ mutex.slot[node.dest] = 0
           /\ SetWorld([signal_connect(World, node.dest, n) EXCEPT !.c[n] =
                  Append(@, [id |-> nextId, dest |-> node.dest, fn |-> node.fn])])
           /\ nextId' = nextId + 1
           /\ thr' = [thr EXCEPT ![t].it = increment(list, @)]
    /\ UNCHANGED <<sigState, slotState, stVars, tkVars, brVars, mutex>>

\* One iteration on a node that a disconnect on the source has erased and
\* deleted meanwhile: the read of freed memory crashes, or it finds what is
\* left there and the walk goes on at some node of the list or ends.
MTCopyDangling(t) ==
    /\ thr[t].pc = "copy_loop"
    /\ thr[t].it # END
    /\ ~InList(m_connected_slots[thr[t].s], thr[t].it)
    /\ \/ thr' = [thr EXCEPT ![t].pc = "crashed"]
       \/ \E x \in {END} \cup Range(Ids(m_connected_slots[thr[t].s])) :
            thr' = [thr EXCEPT ![t].it = x]
    /\ UNCHANGED <<objVars, stVars, tkVars, brVars, mutex>>

\* it == end(): ~lock_block; the constructor returns.
MTCopyEnd(t) ==
    /\ thr[t].pc = "copy_loop"
    /\ thr[t].it = END
    /\ sigState' = [sigState EXCEPT ![thr[t].n] = "live"]
    /\ mutex' = unlock_sig(thr[t].n)
    /\ thr' = [thr EXCEPT ![t] = NoThread]
    /\ UNCHANGED <<slotState, m_connected_slots, m_senders, nextId,
                   stVars, tkVars, brVars>>

\* Threads that connect, disconnect and copy-construct signals.
NextMTCopy ==
    \/ \E t \in Threads, s \in Signals, o \in Slots :
         \E op \in {"connect", "disconnect"} : MTCall(t, op, s, o)
    \/ \E t \in Threads : MTConnectLock(t)
    \/ \E t \in Threads : MTSignalConnect(t)
    \/ \E t \in Threads : MTDisconnectLock(t)
    \/ \E t \in Threads : MTSignalDisconnect(t)
    \/ \E t \in Threads : MTUnlockSig(t)
    \/ \E t \in Threads, src \in Signals : MTCopyCall(t, src)
    \/ \E t \in Threads : MTCopyStep(t)
    \/ \E t \in Threads : MTCopyDangling(t)
    \/ \E t \in Threads : MTCopyEnd(t)

SpecMTCopy == InitMTCopy /\ [][NextMTCopy]_vars

-----------------------------------------------------------------------------
(* The tasklet program: tasklet<int> objects, the coroutine frames they    *)
(* hold, and co_await on a tasklet.  Calls from outside a coroutine        *)
(* (create, move, start, get, connecting an observer slot) are atomic up   *)
(* to the resume() they make; a coroutine body runs one statement per      *)
(* step: co_return, throw, or co_await on a tasklet.                        *)

\* coroutine_handle::done(): suspended at the final suspend point.
done_never(fr, c) == FALSE

done(fr, c) == fr[c].st = "final"

\* internal::tasklet::running().
running(fr, h) == IF coro[h] = nullptr THEN FALSE ELSE ~done(fr, coro[h])

\* promise_type::get() as it would be if it read the eptr member of
\* promise_type, which nothing assigns.
promise_get_derived_eptr(p) ==
    IF p.eptr # NoError THEN Raise(p.eptr) ELSE Val(p.value)

\* promise_type::get(): promise_type_base::get() rethrows the eptr of
\* promise_type_base when it is set; otherwise value is returned.
promise_get(p) ==
    IF p.base_eptr # NoError THEN Raise(p.base_eptr) ELSE Val(p.value)

\* internal::tasklet::get(): coro.promise().get().
get(fr, h) == promise_get(fr[coro[h]])

\* tasklet::complete() and tasklet::exception() return coro.promise().complete
\* and coro.promise().exception: promise() is a promise_type, so the
\* members named are those promise_type declares.
tasklet_complete == "complete"
tasklet_exception == "exception"

\* Inside promise_type_base, complete and exception name its own members:
\* final_suspend calls complete(), unhandled_exception calls exception(eptr).
final_suspend_signal == "base_complete"
unhandled_exception_signal == "base_exception"

\* The slots connected to a signal of a promise: an observer connected from
\* outside through an accessor, or awaitable::resolve of the co_await of
\* coroutine c.  early: the slot was connected before the frame reached its
\* final suspend point.
Observer(early) == [kind |-> "observer", c |-> nullptr, early |-> early]
Resolve(c, early) == [kind |-> "resolve", c |-> c, early |-> early]

\* awaitable(tasklet<T> const & t): task(t), and
\* task.coro.promise().complete.connect(this, &awaitable::resolve).
awaitable_ctor(fr, c, h) ==
    [fr EXCEPT ![c].aw = [task |-> h, awaiting |-> FALSE],
               ![coro[h]].sig[tasklet_complete] =
                   Append(@, Resolve(c, fr[coro[h]].st # "final"))]

\* awaitable::await_ready() with the test left out.
await_ready_never(fr, h) == FALSE

\* awaitable::await_ready(): !task.running().
await_ready(fr, h) == ~running(fr, h)

\* awaitable::await_resume(): return task.get(); the body goes on with the
\* result and the awaitable is destroyed at the end of the co_await
\* expression (~has_slots disconnects resolve from the signal).
await_resume(fr, c) ==
    LET h == fr[c].aw.task
        a == coro[h]
    IN  [fr EXCEPT ![c].obs = get(fr, h),
                   ![c].aw = NoAwait,
                   ![c].st = "running",
                   ![a].sig[tasklet_complete] =
                       SelectSeq(@, LAMBDA x : ~(x.kind = "resolve" /\ x.c = c))]

\* coroutine_handle::resume(): from the initial suspend point into the
\* body, from a co_await into await_resume.  resume() of a coroutine at its
\* final suspend point is undefined.
resume(fr, c) ==
    CASE fr[c].st = "initial" -> [fr EXCEPT ![c].st = "running"]
      [] fr[c].st = "awaiting" -> await_resume(fr, c)
      [] OTHER -> [fr EXCEPT ![c].st = "corrupt"]

\* What is in progress: the body of coroutine c, or the emit of signal
\* which of c's promise with argument arg, rest being the slots not yet
\* invoked.
RunEntry(c) ==
    [k |-> "run", c |-> c, which |-> "none", rest |-> <<>>, arg |-> NoError]
EmitEntry(c, which, arg) ==
    [k |-> "emit", c |-> c, which |-> which, rest |-> frame[c].sig[which],
     arg |-> arg]

Top == stack[Len(stack)]
Pop == SubSeq(stack, 1, Len(stack) - 1)
ReplaceTop(e) == Append(Pop, e)

\* Control is outside every coroutine.
Outside == stack = <<>>

\* The body of coroutine c is executing.
Running(c) ==
    /\ stack # <<>>
    /\ Top.k = "run"
    /\ Top.c = c
    /\ frame[c].st = "running"

\* h = a_coroutine_function(): the frame is allocated, get_return_object
\* makes the tasklet from the handle, initial_suspend suspends.
TaskCreate(h) ==
    /\ Outside
    /\ coro[h] = nullptr
    /\ \E c \in Tasks :
         /\ frame[c].st = "unborn"
         /\ \A d \in Tasks : frame[d].st = "unborn" => c <= d
         /\ frame' = [frame EXCEPT ![c] = [NoFrame EXCEPT !.st = "initial"]]
         /\ coro' = [coro EXCEPT ![h] = c]
         /\ tlast' = TOp("create", h, c, Nothing)
    /\ tpre' = NoFrames
    /\ UNCHANGED <<stack, objVars, stVars, mtVars, brVars>>

\* tasklet(tasklet && other) / operator=(tasklet && other) into an empty
\* tasklet: coro = other.coro; other.coro = nullptr.  No co_await in
\* progress refers to the tasklet moved from.
TaskMove(h1, h2) ==
    /\ Outside
    /\ h1 # h2
    /\ coro[h1] # nullptr
    /\ coro[h2] = nullptr
    /\ \A c \in Tasks : frame[c].aw.task # h1
    /\ coro' = [coro EXCEPT ![h2] = coro[h1], ![h1] = nullptr]
    /\ tlast' = TOp("move", h1, coro[h1], Nothing)
    /\ tpre' = NoFrames
    /\ UNCHANGED <<frame, stack, objVars, stVars, mtVars, brVars>>

\* internal::tasklet::start(): if (!coro) throw logic_error; if
\* (coro.done()) throw logic_error; coro.resume().
TaskStart(h) ==
    /\ Outside
    /\ LET c == coro[h]
       IN  IF c = nullptr
           THEN /\ tlast' = TOp("start", h, c, LogicError)
                /\ UNCHANGED <<frame, stack>>
           ELSE IF done(frame, c)
           THEN /\ tlast' = TOp("start", h, c, LogicError)
                /\ UNCHANGED <<frame, stack>>
           ELSE /\ tlast' = TOp("start", h, c, Nothing)
                /\ frame' = resume(frame, c)
                /\ stack' = IF resume(frame, c)[c].st = "running"
                            THEN <<RunEntry(c)>> ELSE <<>>
    /\ tpre' = frame
    /\ UNCHANGED <<coro, objVars, stVars, mtVars, brVars>>

\* internal::tasklet::get() / operator*() on a tasklet that holds a frame.
TaskGet(h) ==
    /\ Outside
    /\ coro[h] # nullptr
    /\ tlast' = TOp("get", h, coro[h], get(frame, h))
    /\ tpre' = NoFrames
    /\ UNCHANGED <<coro, frame, stack, objVars, stVars, mtVars, brVars>>

\* h.complete().connect(...) / h.exception().connect(...): a slot that
\* counts its invocations is connected through the accessor (one per signal).
TaskObserve(h, which) ==
    /\ Outside
    /\ coro[h] # nullptr
    /\ which \in {tasklet_complete, tasklet_exception}
    /\ LET c == coro[h]
       IN  /\ \A i \in DOMAIN frame[c].sig[which] :
                  frame[c].sig[which][i].kind # "observer"
           /\ frame' = [frame EXCEPT ![c].sig[which] =
                                         Append(@, Observer(frame[c].st # "final"))]
           /\ tlast' = TOp("observe", h, c, Nothing)
    /\ tpre' = NoFrames
    /\ UNCHANGED <<coro, stack, objVars, stVars, mtVars, brVars>>

\* co_return v: return_value(v) stores the value; the coroutine goes to
\* final_suspend, which emits complete.
BodyReturn(c, v) ==
    /\ Running(c)
    /\ frame' = [frame EXCEPT ![c].value = v]
    /\ stack' = ReplaceTop(EmitEntry(c, final_suspend_signal, NoError))
    /\ UNCHANGED <<coro, tlast, tpre, objVars, stVars, mtVars, brVars>>

\* An exception e leaves the body: unhandled_exception stores
\* current_exception() in eptr and emits exception(eptr).
BodyThrow(c, e) ==
    /\ Running(c)
    /\ frame' = [frame EXCEPT ![c].base_eptr = e]
    /\ stack' = ReplaceTop(EmitEntry(c, unhandled_exception_signal, e))
    /\ UNCHANGED <<coro, tlast, tpre, objVars, stVars, mtVars, brVars>>

\* co_await h on another tasklet: the awaitable is constructed; when
\* await_ready() is true the body goes on with await_resume(), otherwise
\* await_suspend(handle) stores the handle and control returns to whoever
\* resumed the coroutine.
BodyAwait(c, h) ==
    /\ Running(c)
    /\ coro[h] # nullptr
    /\ coro[h] # c
    /\ LET a == coro[h]
           fr1 == awaitable_ctor(frame, c, h)
           rdy == await_ready(fr1, h)
           fr2 == [fr1 EXCEPT ![c].hist =
                       [target |-> a, ready |-> frame[a].st = "final",
                        suspended |-> ~rdy]]
       IN  IF rdy
           THEN /\ frame' = await_resume(fr2, c)
                /\ stack' = stack
           ELSE /\ frame' = [fr2 EXCEPT ![c].aw.awaiting = TRUE,
                                        ![c].st = "awaiting"]
                /\ stack' = Pop
    /\ UNCHANGED <<coro, tlast, tpre, objVars, stVars, mtVars, brVars>>

\* What an observer slot records when it is invoked by signal which.
deliver(f, which, arg) ==
    IF which \in {tasklet_complete, final_suspend_signal}
    THEN [f EXCEPT !.complete = @ + 1]
    ELSE [f EXCEPT !.exception = Append(@, arg)]

\* One step of the emit in progress.  A slot is left: it is invoked (an
\* observer records the call; resolve() resumes the awaiting coroutine if
\* await_suspend has stored it).  No slot is left: after
\* unhandled_exception the coroutine goes to final_suspend; after
\* final_suspend it is suspended at its final suspend point and resume()
\* returns.
TaskEmitStep ==
    /\ stack # <<>>
    /\ Top.k = "emit"
    /\ LET e == Top
           c == e.c
           adv == [e EXCEPT !.rest = Tail(@)]
       IN  IF e.rest = <<>>
           THEN IF e.which = unhandled_exception_signal
                THEN /\ stack' = ReplaceTop(EmitEntry(c, final_suspend_signal,
                                                      NoError))
                     /\ frame' = frame
                ELSE /\ stack' = Pop
                     /\ frame' = [frame EXCEPT ![c].st = "final"]
           ELSE LET x == Head(e.rest)
                IN  IF x.kind = "observer"
                    THEN /\ frame' = [frame EXCEPT ![c].fired =
                                          deliver(@, e.which, e.arg)]
                         /\ stack' = ReplaceTop(adv)
                    ELSE IF frame[x.c].aw.awaiting
                    THEN /\ frame' = await_resume(frame, x.c)
                         /\ stack' = Append(ReplaceTop(adv), RunEntry(x.c))
                    ELSE /\ frame' = frame
                         /\ stack' = ReplaceTop(adv)
    /\ UNCHANGED <<coro, tlast, tpre, objVars, stVars, mtVars, brVars>>

NextTask ==
    \/ \E h \in Handles : TaskCreate(h)
    \/ \E h1, h2 \in Handles : TaskMove(h1, h2)
    \/ \E h \in Handles : TaskStart(h)
    \/ \E h \in Handles : TaskGet(h)
    \/ \E h \in Handles, which \in {tasklet_complete, tasklet_exception} :
         TaskObserve(h, which)
    \/ \E c \in Tasks, v \in Values : BodyReturn(c, v)
    \/ \E c \in Tasks, e \in Errors : BodyThrow(c, e)
    \/ \E c \in Tasks, h \in Handles : BodyAwait(c, h)
    \/ TaskEmitStep

SpecTask == Init /\ [][NextTask]_vars

\* tasklet(tasklet const & other) : coro(other.coro), constructing h2 as a
\* copy of h1: both tasklets hold the same coroutine_handle.
TaskCopy(h1, h2) ==
    /\ Outside
    /\ h1 # h2
    /\ coro[h1] # nullptr
    /\ coro[h2] = nullptr
    /\ coro' = [coro EXCEPT ![h2] = coro[h1]]
    /\ tlast' = TOp("copy", h1, coro[h1], Nothing)
    /\ tpre' = NoFrames
    /\ UNCHANGED <<frame, stack, objVars, stVars, mtVars, brVars>>

\* h2 = std::move(h1) on a tasklet h2 that holds a frame: coro = other.coro;
\* other.coro = nullptr.  The handle h2 held is overwritten, not destroyed.
TaskMoveAssign(h1, h2) ==
    /\ Outside
    /\ h1 # h2
    /\ coro[h2] # nullptr
    /\ \A c \in Tasks : frame[c].aw.task \notin {h1, h2}
    /\ coro' = [coro EXCEPT ![h2] = coro[h1], ![h1] = nullptr]
    /\ tlast' = TOp("move_assign", h1, coro[h1], Nothing)
    /\ tpre' = NoFrames
    /\ UNCHANGED <<frame, stack, objVars, stVars, mtVars, brVars>>

\* What coro.destroy() makes of a frame: the frame is gone, and destroying
\* a frame that is gone already is counted.
destroy(fr, c) ==
    [fr EXCEPT ![c] = [NoFrame EXCEPT !.st =
        IF fr[c].st \in {"destroyed", "destroyed_twice"}
        THEN "destroyed_twice" ELSE "destroyed"]]

\* ~tasklet() of a tasklet that holds a handle: if (coro) coro.destroy().
\* The place h is free for another tasklet afterwards.
TaskDestroy(h) ==
    /\ Outside
    /\ coro[h] # nullptr
    /\ \A c \in Tasks : frame[c].aw.task # h
    /\ frame' = destroy(frame, coro[h])
    /\ coro' = [coro EXCEPT ![h] = nullptr]
    /\ tlast' = TOp("destroy", h, coro[h], Nothing)
    /\ tpre' = NoFrames
    /\ UNCHANGED <<stack, objVars, stVars, mtVars, brVars>>

\* Tasklets that are created, copied, moved, move-assigned, started and
\* destroyed, with bodies that co_return.
NextHandle ==
    \/ \E h \in Handles : TaskCreate(h)
    \/ \E h1, h2 \in Handles : TaskMove(h1, h2)
    \/ \E h1, h2 \in Handles : TaskCopy(h1, h2)
    \/ \E h1, h2 \in Handles : TaskMoveAssign(h1, h2)
    \/ \E h \in Handles : TaskDestroy(h)
    \/ \E h \in Handles : TaskStart(h)
    \/ \E c \in Tasks, v \in Values : BodyReturn(c, v)
    \/ TaskEmitStep

SpecHandle == Init /\ [][NextHandle]_vars

-----------------------------------------------------------------------------
(* Properties of the single_threaded program.                              *)

\* The connections of list that do not target o, in their order.
Without(list, o) == SelectSeq(list, LAMBDA x : x.dest # o)

\* The connections of list whose target is not in the set D, in their order.
WithoutAll(list, D) == SelectSeq(list, LAMBDA x : x.dest \notin D)

\* No callable of the pass has changed the emitting signal's registry.
NoMutation == \A i \in DOMAIN log : ~log[i].mut

\* How many times the pass has invoked connection object id.
Times(id) == Cardinality({i \in DOMAIN log : log[i].id = id})

\* C1: with no mutation of the registry during the pass, emit(args) invokes
\* the connections of the signal in registration order, each exactly once and
\* with args (a target connected twice is invoked twice); the pass never
\* crashes, and on an empty registry it invokes nothing and completes.
EmitInvokesEachOnceInOrder ==
    (em.st # "idle" /\ NoMutation) =>
        /\ em.st \in {"run", "done"}
        /\ Len(log) <= Len(em.start)
        /\ \A i \in DOMAIN log :
            /\ log[i].id = em.start[i].id
            /\ log[i].dest = em.start[i].dest
            /\ log[i].fn = em.start[i].fn
            /\ log[i].arg = em.arg
            /\ ~log[i].stale
        /\ (em.st = "run") = (Len(log) < Len(em.start))
        /\ (em.st = "done") = (Len(log) = Len(em.start))

\* C1 witness: a completed pass without mutation over a registry that holds
\* the same target twice.
EmitTwiceConnectedDone ==
    /\ em.st = "done"
    /\ NoMutation
    /\ Len(log) >= 2
    /\ log[1].dest = log[2].dest
    /\ log[1].id # log[2].id
    /\ log[2].arg = "b"

\* C2: destroying a slot-owner removes exactly its connections from every
\* signal (the connections of other targets stay, in order), and an emit
\* pass begun once the destruction has completed invokes no callable bound to
\* the destroyed owner.
DestroySlotRemovesExactlyItsConnections ==
    /\ last.op = "destroy_slot" =>
        /\ slotState[last.o] = "dead"
        /\ \A s \in Signals :
            m_connected_slots[s] = Without(pre.c[s], last.o)
    /\ \A i \in DOMAIN log :
        slotState[log[i].dest] = "dead" => log[i].dest \in em.live0

\* C2 witness: the destroyed owner had connections on two signals, two of
\* them on one signal, and a connection of another target stays.
DestroySlotAcrossSignals ==
    /\ last.op = "destroy_slot"
    /\ \E s1, s2 \in Signals :
        /\ s1 # s2
        /\ CountDest(pre.c[s1], last.o) >= 2
        /\ CountDest(pre.c[s2], last.o) >= 1
        /\ m_connected_slots[s2] # <<>>

\* C3: with no call in progress, each live slot-owner's back-reference set
\* is exactly the set of live signals that hold a connection targeting it.
SendersMatchConnections ==
    TopLevel =>
        \A o \in LiveSlots :
            m_senders[o] = {s \in LiveSignals : found(m_connected_slots[s], o)}

\* C3 witness: a slot-owner copy has just been made of an owner connected to
\* two signals.
CopySlotOfTwoSenders ==
    /\ last.op = "copy_slot"
    /\ Cardinality(m_senders[last.n]) = 2
    /\ Cardinality(m_senders[last.o]) = 2

\* C4: s.disconnect(o) removes every connection of s that targets o and
\* removes s from o's back-reference set; the other connections of s stay in
\* order, every other signal and every other slot-owner is left alone, and
\* with no connection from s to o nothing changes.
DisconnectRemovesExactlyTarget ==
    last.op = "disconnect" =>
        /\ m_connected_slots[last.s] = Without(pre.c[last.s], last.o)
        /\ m_senders[last.o] = pre.m[last.o] \ {last.s}
        /\ \A s \in Signals \ {last.s} : m_connected_slots[s] = pre.c[s]
        /\ \A o \in Slots \ {last.o} : m_senders[o] = pre.m[o]
        /\ ~found(pre.c[last.s], last.o) =>
            /\ m_connected_slots = pre.c
            /\ m_senders = pre.m

\* C4 witness: the target was connected twice on s beside another target,
\* and it is still connected on another signal.
DisconnectOfTwiceConnected ==
    /\ last.op = "disconnect"
    /\ CountDest(pre.c[last.s], last.o) = 2
    /\ m_connected_slots[last.s] # <<>>
    /\ m_senders[last.o] # {}

\* C5: s.disconnect_all() and the destruction of s leave s with an empty
\* registry and in no slot-owner's back-reference set, while the connections
\* of every other signal, and the back-references to them, remain.
SignalDisconnectAllClears ==
    last.op \in {"disconnect_all", "destroy_signal"} =>
        /\ m_connected_slots[last.s] = <<>>
        /\ \A o \in Slots : m_senders[o] = pre.m[o] \ {last.s}
        /\ \A s \in Signals \ {last.s} : m_connected_slots[s] = pre.c[s]
        /\ (last.op = "destroy_signal") = (sigState[last.s] = "dead")

\* C5 witness: the destroyed signal was connected to two slot-owners, one of
\* which another signal still targets.
DestroySignalOfShared ==
    /\ last.op = "destroy_signal"
    /\ Cardinality({o \in Slots : last.s \in pre.m[o]}) = 2
    /\ \E o \in Slots : last.s \in pre.m[o] /\ m_senders[o] # {}

\* C6: the copy of a signal holds connections to the same targets with the
\* same callables in the same order, the source is unchanged, and each
\* distinct target gains exactly one back-reference, to the copy.
CopySignalClones ==
    last.op = "copy_signal" =>
        LET src == pre.c[last.s]
            new == m_connected_slots[last.n]
        IN  /\ Len(new) = Len(src)
            /\ \A i \in DOMAIN src :
                new[i].dest = src[i].dest /\ new[i].fn = src[i].fn
            /\ \A s \in Signals \ {last.n} : m_connected_slots[s] = pre.c[s]
            /\ \A o \in Slots :
                /\ last.n \notin pre.m[o]
                /\ m_senders[o] =
                     IF found(src, o) THEN pre.m[o] \cup {last.n} ELSE pre.m[o]
                /\ Cardinality(m_senders[o]) =
                     Cardinality(pre.m[o]) + (IF found(src, o) THEN 1 ELSE 0)

\* C6 witness: the source held two connections to one target.
CopySignalOfTwiceConnected ==
    /\ last.op = "copy_signal"
    /\ \E o \in Slots : CountDest(pre.c[last.s], o) = 2

\* The callables of the pass did nothing but, some of them, act on a
\* slot-owner in the way `act`; own: only ever on their own target.
OnlyAct(act, own) ==
    \A i \in DOMAIN log :
        \/ log[i].act = "nop"
        \/ log[i].act = act /\ (own => log[i].ao = log[i].dest)

\* The targets the callables of the pass have acted on.
ActedOn == {log[i].ao : i \in {j \in DOMAIN log : log[j].act # "nop"}}

\* C7: when a callable running inside s.emit calls s.disconnect on its own
\* target, no callable bound to that target is invoked again in the pass,
\* the pass never visits a removed connection, and the remaining connections
\* of the other targets are each invoked once, in order.
SelfDisconnectInEmitIsSafe ==
    (em.st # "idle" /\ OnlyAct("disconnect", TRUE)) =>
        /\ em.st # "crashed"
        /\ em.st = "run" => InList(m_connected_slots[em.s], em.it)
        /\ \A i \in DOMAIN log : ~log[i].stale
        /\ \A i, j \in DOMAIN log :
            (i < j /\ log[i].act = "disconnect") => log[j].dest # log[i].dest
        /\ em.st = "done" =>
            WithoutAll([i \in DOMAIN log |-> [id |-> log[i].id, dest |-> log[i].dest]],
                       ActedOn)
              = WithoutAll([i \in DOMAIN em.start |->
                               [id |-> em.start[i].id, dest |-> em.start[i].dest]],
                           ActedOn)

\* C8: a connection added to s by a callable that runs during an emit on s
\* is not invoked in that pass, wherever the adding connection stands.
AddedInPassNotInvoked ==
    (em.st # "idle" /\ OnlyAct("connect", FALSE)) =>
        \A i \in DOMAIN log : log[i].id < em.id0

\* C9: when a callable running inside s.emit destroys a slot-owner, the pass
\* never visits or invokes a connection removed from s's registry, and it
\* invokes every connection that remains exactly once.
DestroyInEmitIsSafe ==
    (em.st # "idle" /\ OnlyAct("destroy", FALSE)) =>
        /\ em.st # "crashed"
        /\ em.st = "run" => InList(m_connected_slots[em.s], em.it)
        /\ \A i \in DOMAIN log : ~log[i].stale
        /\ em.st = "done" =>
            \A c \in Range(m_connected_slots[em.s]) : Times(c.id) = 1

-----------------------------------------------------------------------------
(* Properties of the multi_threaded_local program.                         *)

\* Thread t holds the mutex of signal s and waits for the mutex of slot-owner o.
HoldsSigWantsSlot(t, s, o) ==
    /\ mutex.sig[s] = t
    /\ thr[t].pc \in {"signal_connect", "signal_disconnect"}
    /\ thr[t].s = s /\ thr[t].o = o
    /\ mutex.slot[o] \notin {0, t}

\* Thread t holds the mutex of slot-owner o and waits for the mutex of signal s.
HoldsSlotWantsSig(t, o, s) ==
    /\ mutex.slot[o] = t
    /\ thr[t].pc = "senders_loop"
    /\ thr[t].o = o
    /\ thr[t].iter # {}
    /\ s = (CHOOSE x \in thr[t].iter : \A y \in thr[t].iter : x <= y)
    /\ mutex.sig[s] \notin {0, t}

\* C10: a thread in s.connect(&o) or s.disconnect(&o) and a thread in o's
\* disconnect_all or destructor never reach a state where each holds one of
\* the two mutexes and waits for the other.
NoLockOrderDeadlock ==
    \A t1, t2 \in Threads, s \in Signals, o \in Slots :
        ~(/\ t1 # t2
          /\ slotState[o] = "live"
          /\ HoldsSigWantsSlot(t1, s, o)
          /\ HoldsSlotWantsSig(t2, o, s))

\* Thread t stands in pthread_mutex_lock on the mutex of signal s.
WaitsForSig(t, s) ==
    /\ thr[t].pc \in {"lock_connect", "lock_disconnect", "lock_emit"}
    /\ thr[t].s = s

\* C11: every call of emit, connect and disconnect returns, a connect or
\* disconnect made by a callable inside the signal's own emit included: no
\* thread ever waits for a mutex that it holds itself (which nothing but
\* that thread could release).
NoThreadWaitsForItself ==
    \A t \in Threads, s \in Signals : WaitsForSig(t, s) => mutex.sig[s] # t

\* C12: with connect(s, o) in one thread and the destruction of o in
\* another, once o is destroyed no signal holds a connection to o and the
\* set of senders of o is not written any more (it stays as the destructor
\* left it, empty).
ConnectVersusDestroyIsSafe ==
    \A o \in Slots :
        slotState[o] = "dead" =>
            /\ \A s \in Signals : ~found(m_connected_slots[s], o)
            /\ m_senders[o] = {}

-----------------------------------------------------------------------------
(* Properties of the tasklet program.                                      *)

\* An observer slot was connected to signal which of frame c, through the
\* accessor, before the frame reached its final suspend point.
Observes(c, which) ==
    \E i \in DOMAIN frame[c].sig[which] :
        /\ frame[c].sig[which][i].kind = "observer"
        /\ frame[c].sig[which][i].early

\* The body of frame c has ended, by an exception or by co_return, and
\* control is back outside.
Failed(c) == Outside /\ frame[c].st = "final" /\ frame[c].base_eptr # NoError
Succeeded(c) == Outside /\ frame[c].st = "final" /\ frame[c].base_eptr = NoError

\* C13: when the body of a task has raised an error, the slot connected
\* through the completion accessor has not been invoked and the slot
\* connected through the failure accessor has been invoked exactly once,
\* with that error.
RaisingTaskFiresFailureOnce ==
    \A c \in Tasks :
        (Failed(c) /\ Observes(c, tasklet_complete)
                   /\ Observes(c, tasklet_exception)) =>
            /\ frame[c].fired.complete = 0
            /\ frame[c].fired.exception = <<frame[c].base_eptr>>

\* C14: after the body of a task has raised an error, get() (and
\* operator*, which is get()) rethrows that error; and the start() call
\* that ran the body has returned without raising anything.
GetReraisesCapturedError ==
    /\ (tlast.op = "get" /\ frame[tlast.c].base_eptr # NoError) =>
           tlast.res = Raise(frame[tlast.c].base_eptr)
    /\ \A c \in Tasks :
           (Failed(c) /\ tlast.op = "start" /\ tlast.c = c
                      /\ tpre[c].base_eptr = NoError) =>
               tlast.res = Nothing

\* get() was called on a task whose body had raised.
GetAfterBodyRaised ==
    /\ tlast.op = "get"
    /\ frame[tlast.c].st = "final"
    /\ frame[tlast.c].base_eptr \in Errors

\* What a finished frame holds: its value, or the error its body raised.
Outcome(c) ==
    IF frame[c].base_eptr # NoError THEN Raise(frame[c].base_eptr)
                                    ELSE Val(frame[c].value)

\* C15: a task that awaits an unfinished task stays suspended until the
\* awaited task finishes and is resumed inside the call that finishes it:
\* once control is back outside, no task is still suspended on a finished
\* task, and a task that has left its co_await has observed the outcome of
\* the task it awaited.
AwaiterResumedWhenAwaitedFinishes ==
    \A c \in Tasks :
        /\ (Outside /\ frame[c].st = "awaiting") =>
               frame[coro[frame[c].aw.task]].st # "final"
        /\ (Outside /\ frame[c].hist.suspended
                    /\ frame[c].st \in {"running", "final"}) =>
               /\ frame[frame[c].hist.target].st = "final"
               /\ frame[c].obs = Outcome(frame[c].hist.target)

\* C16: start() on a task that was started and is suspended in a co_await
\* raises a logic_error (and so does not resume the body).
StartOfSuspendedRaisesLogicError ==
    (tlast.op = "start" /\ tlast.c # nullptr
                        /\ tpre[tlast.c].st = "awaiting") =>
        tlast.res = LogicError

\* C17: start() on an empty tasklet (default-constructed or moved from) or
\* on a finished task raises a logic_error and changes no frame: state,
\* value, captured error and signals are as before.
StartOfEmptyOrFinishedRaisesLogicError ==
    (/\ tlast.op = "start"
     /\ \/ tlast.c = nullptr
        \/ tpre[tlast.c].st = "final") =>
        /\ tlast.res = LogicError
        /\ frame = tpre
        /\ Outside

\* start() was called on a task that had finished.
StartOfFinishedTask ==
    /\ tlast.op = "start"
    /\ tlast.c # nullptr
    /\ tpre[tlast.c].st = "final"

\* C18: get() (or operator*) on a task that has not finished, never
\* started or suspended in a co_await, raises a logic_error.
GetOfUnfinishedRaisesLogicError ==
    (tlast.op = "get" /\ frame[tlast.c].st \in {"initial", "awaiting"}) =>
        tlast.res = LogicError

\* C19: a slot connected through complete() before the task finishes has
\* been invoked exactly once when the body has finished normally, and not
\* at all while the body has not finished.
CompletionObserverInvokedOnce ==
    \A c \in Tasks :
        Observes(c, tasklet_complete) =>
            /\ Succeeded(c) => frame[c].fired.complete = 1
            /\ frame[c].st \in {"initial", "awaiting"} =>
                   frame[c].fired.complete = 0

\* C20: a co_await on a task that was already finished did not suspend
\* the awaiting body, which has gone on with the finished task's value or
\* with its captured error rethrown.
AwaitOfFinishedResolvesImmediately ==
    \A c \in Tasks :
        (frame[c].hist.target # nullptr /\ frame[c].hist.ready) =>
            /\ ~frame[c].hist.suspended
            /\ frame[c].st # "awaiting"
            /\ frame[c].obs = Outcome(frame[c].hist.target)

\* A body has awaited a task that had finished by raising an error.
AwaitOfFinishedFailedTask ==
    \E c \in Tasks :
        /\ frame[c].hist.ready
        /\ frame[c].obs.k = "raise"

-----------------------------------------------------------------------------
(* Signals with one-shot connections and awaiters.  src/co_example.cc      *)
(* awaits signals (co_await tick) and resumes the awaiting coroutine by    *)
(* emitting them; the signal header it is written against has a one_shot  *)
(* argument on connect and a waiter set per signal, neither of which the  *)
(* sigslot.h under src/ has.  This part is the design text's emit: deliver *)
(* to the connections in order, resolve the waiters registered at that     *)
(* moment as one batch, prune the expired one-shot connections with their  *)
(* reciprocal disconnect, return.  The callables invoked are taken not to  *)
(* touch the registry; a resumed task runs on, inside emit, to its next    *)
(* co_await or to its end.                                                 *)

\* connect(target, callable, one_shot): what is remembered of a connection
\* registered with one_shot = true.
connect_one_shot(set, id, s, o) ==
    set \cup {[id |-> id, s |-> s, o |-> o, at |-> Len(emit_log)]}

\* The connections a pass marks expired: the one-shot ones it has fired.
expired(list) == {r.id : r \in one_shot} \cap Range(Ids(list))

\* The registry without the expired connections.
prune_list(list, ex) == SelectSeq(list, LAMBDA x : x.id \notin ex)

\* A prune that forgets the reciprocal disconnect.
prune_keep_senders(w, s, ex) == [w EXCEPT !.c[s] = prune_list(@, ex)]

\* Prune with reciprocal disconnect: the target of a pruned connection drops
\* its reference to s when no connection of s to it remains.
prune(w, s, ex) ==
    LET kept == prune_list(w.c[s], ex)
        gone == {w.c[s][i].dest : i \in {j \in DOMAIN w.c[s] : w.c[s][j].id \in ex}}
    IN  [c |-> [w.c EXCEPT ![s] = kept],
         m |-> [o \in Slots |->
                  IF o \in gone /\ ~found(kept, o) THEN w.m[o] \ {s} ELSE w.m[o]]]

\* A batch of the first waiter only.
batch_first(ws) == IF ws = <<>> THEN <<>> ELSE <<Head(ws)>>

\* The batch an emit detaches: all the waiters registered at that moment.
batch(ws) == ws

\* A task resumed by emit number n with payload a: its body runs on to its
\* end (nxt = 0) or to a co_await on signal nxt, where it suspends again.
resolve(a, n, nxt) ==
    IF nxt = 0
    THEN [st |-> "finished", sig |-> 0, since |-> 0, by |-> n, payload |-> a]
    ELSE [st |-> "suspended", sig |-> nxt, since |-> n, by |-> n, payload |-> a]

\* The waiter sets after the tasks of ws, resumed in that order, have
\* registered the awaiters of their next co_await.
RECURSIVE reregister(_, _, _)
reregister(wf, ws, nxt) ==
    IF ws = <<>> THEN wf
    ELSE LET k == Head(ws)
         IN  reregister(IF nxt[k] = 0 THEN wf
                        ELSE [wf EXCEPT ![nxt[k]] = Append(@, k)],
                        Tail(ws), nxt)

\* The waiters of a set that are not in the batch, in their order.
detach(ws, b) == SelectSeq(ws, LAMBDA k : k \notin Range(b))

\* s.connect(&o, fn, flag)
AwaitConnect(s, o, flag) ==
    /\ nextId <= MaxRegistered
    /\ nextId' = nextId + 1
    /\ SetWorld(connect(World, s, o, nextId))
    /\ one_shot' = IF flag THEN connect_one_shot(one_shot, nextId, s, o)
                   ELSE one_shot
    /\ UNCHANGED <<sigState, slotState, stVars, mtVars, tkVars,
                   waiters, wtask, emit_log>>

\* s.disconnect(&o)
AwaitDisconnect(s, o) ==
    /\ found(m_connected_slots[s], o)
    /\ SetWorld(disconnect(World, s, o))
    /\ UNCHANGED <<sigState, slotState, nextId, stVars, mtVars, tkVars, brVars>>

\* Task k, started from outside, reaches `co_await s`: the awaiter registers
\* with s and the task suspends.
AwaitSignal(k, s) ==
    /\ wtask[k].st = "created"
    /\ wtask' = [wtask EXCEPT ![k] = [NoWait EXCEPT !.st = "suspended", !.sig = s,
                                                      !.since = Len(emit_log)]]
    /\ waiters' = [waiters EXCEPT ![s] = Append(@, k)]
    /\ UNCHANGED <<objVars, stVars, mtVars, tkVars, one_shot, emit_log>>

\* s.emit(a), from the call to its return.
AwaitEmit(s, a) ==
    /\ Len(emit_log) < MaxEmits
    /\ LET list == m_connected_slots[s]
           n == Len(emit_log) + 1
           b == batch(waiters[s])
       IN  \E nxt \in [Range(b) -> {0} \cup Signals] :
             /\ wtask' = [k \in Tasks |->
                            IF k \in Range(b) THEN resolve(a, n, nxt[k])
                            ELSE wtask[k]]
             /\ waiters' = reregister([waiters EXCEPT ![s] = detach(@, b)], b, nxt)
             /\ SetWorld(prune(World, s, expired(list)))
             /\ emit_log' = Append(emit_log,
                    [s |-> s, a |-> a, invoked |-> Ids(list),
                     waiting |-> {k \in Tasks : /\ wtask[k].st = "suspended"
                                                /\ wtask[k].sig = s},
                     resumed |-> b])
    /\ UNCHANGED <<sigState, slotState, nextId, stVars, mtVars, tkVars, one_shot>>

\* Tasks that await signals and a caller that emits them.
NextAwait ==
    \/ \E k \in Tasks, s \in Signals : AwaitSignal(k, s)
    \/ \E s \in Signals, a \in Args : AwaitEmit(s, a)

SpecAwait == InitMT /\ [][NextAwait]_vars

\* A caller that connects, with and without one_shot, disconnects and emits.
NextOneShot ==
    \/ \E s \in Signals, o \in Slots, flag \in BOOLEAN : AwaitConnect(s, o, flag)
    \/ \E s \in Signals, o \in Slots : AwaitDisconnect(s, o)
    \/ \E s \in Signals : AwaitEmit(s, "a")

SpecOneShot == InitMT /\ [][NextOneShot]_vars

-----------------------------------------------------------------------------
(* Properties of awaited signals and one-shot connections.                 *)

\* The emits on signal s that returned after the first n emits.
EmitsAfter(s, n) == {i \in DOMAIN emit_log : i > n /\ emit_log[i].s = s}

Fired(id) == Cardinality({n \in DOMAIN emit_log :
                 \E i \in DOMAIN emit_log[n].invoked : emit_log[n].invoked[i] = id})

-----------------------------------------------------------------------------
(* The multi_threaded_global program (thread::mtg): lock() and unlock() of *)
(* every signal and every has_slots act on the one static g_mutex, which   *)
(* has default attributes; a pthread_mutex_lock by the thread that holds   *)
(* it does not return.  A thread takes one step per lock_block it has to   *)
(* pass; the function entered through the peer (signal_connect,            *)
(* signal_disconnect, slot_disconnect) ends with its own ~lock_block,      *)
(* which unlocks g_mutex.                                                  *)

\* mtg::lock(): pthread_mutex_lock(get_mutex()) returns once it is free.
mtg_lock(t) == [mutex EXCEPT !.g = t]
\* mtg::unlock(), and what pthread_mutex_init leaves of a mutex in use.
mtg_unlock == [mutex EXCEPT !.g = 0]

\* Thread t enters s.connect(&o, fn), s.disconnect(&o), s.disconnect_all()
\* or ~has_slots() of o: it stands before the lock_block of the function.
GCall(t, op, s, o) ==
    /\ thr[t].pc = "idle"
    /\ op \in {"connect", "disconnect", "disconnect_all", "destroy_slot"}
    /\ IF op = "destroy_slot" THEN s = 0 ELSE s \in Signals /\ sigState[s] = "live"
    /\ IF op = "disconnect_all" THEN o = 0 ELSE o \in Slots /\ slotState[o] = "live"
    /\ op = "destroy_slot" =>
         \A u \in Threads : thr[u].op = "destroy_slot" => thr[u].o # o
    /\ op = "connect" =>
         nextId + Cardinality({u \in Threads : thr[u].op = "connect"
                                               /\ thr[u].pc = "lock"})
           <= MaxRegistered
    /\ thr' = [thr EXCEPT ![t] = [op |-> op, s |-> s, o |-> o, iter |-> {},
                                  it |-> END, n |-> 0, pc |-> "lock"]]
    /\ UNCHANGED <<objVars, stVars, tkVars, brVars, mutex>>

\* The lock_block of the function entered, and the function's body up to the
\* first call into a peer:
\*   connect        new _connection, push_back
\*   disconnect     remove_if, found or not
\*   disconnect_all the loop starts at m_connected_slots.begin()
\*   ~has_slots     disconnect_all: the range-for over m_senders starts
GLock(t) ==
    /\ thr[t].pc = "lock"
    /\ mutex.g = 0
    /\ LET s == thr[t].s
           o == thr[t].o
       IN  CASE thr[t].op = "connect" ->
                  /\ m_connected_slots' = [m_connected_slots EXCEPT ![s] =
                         Append(@, [id |-> nextId, dest |-> o, fn |-> nextId])]
                  /\ nextId' = nextId + 1
                  /\ thr' = [thr EXCEPT ![t].pc = "peer_lock"]
                  /\ mutex' = mtg_lock(t)
             [] thr[t].op = "disconnect" ->
                  /\ m_connected_slots' = [m_connected_slots EXCEPT ![s] =
                                              remove_if(@, o)]
                  /\ thr' = [thr EXCEPT ![t].pc =
                               IF found(m_connected_slots[s], o)
                               THEN "peer_lock" ELSE "unlock"]
                  /\ mutex' = mtg_lock(t)
                  /\ UNCHANGED nextId
             [] thr[t].op = "disconnect_all" ->
                  /\ thr' = [thr EXCEPT ![t].it = begin(m_connected_slots[s]),
                                        ![t].pc = IF m_connected_slots[s] = <<>>
                                                  THEN "unlock" ELSE "peer_lock"]
                  /\ mutex' = mtg_lock(t)
                  /\ UNCHANGED <<m_connected_slots, nextId>>
             [] OTHER ->
                  /\ thr' = [thr EXCEPT ![t].iter = m_senders[o],
                                        ![t].pc = IF m_senders[o] = {}
                                                  THEN "unlock" ELSE "peer_lock"]
                  /\ mutex' = mtg_lock(t)
                  /\ UNCHANGED <<m_connected_slots, nextId>>
    /\ UNCHANGED <<sigState, slotState, m_senders, stVars, tkVars, brVars>>

\* The lock_block of the peer's function, its body and its ~lock_block:
\*   connect        pclass->signal_connect(this)
\*   disconnect     pclass->signal_disconnect(this)
\*   disconnect_all (*it)->getdest()->signal_disconnect(this), ++it, and
\*                  after the last one m_connected_slots.erase(begin, end)
\*   ~has_slots     i->slot_disconnect(this) for the next sender, and after
\*                  the last one m_senders.erase(begin, end)
GPeerLock(t) ==
    /\ thr[t].pc = "peer_lock"
    /\ mutex.g = 0
    /\ LET s == thr[t].s
           o == thr[t].o
       IN  CASE thr[t].op = "connect" ->
                  /\ SetWorld(signal_connect(World, o, s))
                  /\ thr' = [thr EXCEPT ![t].pc = "unlock"]
             [] thr[t].op = "disconnect" ->
                  /\ SetWorld(signal_disconnect(World, o, s))
                  /\ thr' = [thr EXCEPT ![t].pc = "unlock"]
             [] thr[t].op = "disconnect_all" /\ ~InList(m_connected_slots[s], thr[t].it) ->
                  \* the node the iterator points at has been deleted meanwhile
                  /\ thr' = [thr EXCEPT ![t].pc = "crashed"]
                  /\ UNCHANGED <<m_connected_slots, m_senders>>
             [] thr[t].op = "disconnect_all" /\ InList(m_connected_slots[s], thr[t].it) ->
                  LET list == m_connected_slots[s]
                      node == list[IndexOf(list, thr[t].it)]
                      nxt == increment(list, thr[t].it)
                      w2 == signal_disconnect(World, node.dest, s)
                  IN  /\ SetWorld(IF nxt = END THEN [w2 EXCEPT !.c[s] = <<>>] ELSE w2)
                      /\ thr' = [thr EXCEPT ![t].it = nxt,
                                            ![t].pc = IF nxt = END THEN "unlock"
                                                      ELSE "peer_lock"]
             [] OTHER ->
                  LET i == CHOOSE x \in thr[t].iter : \A y \in thr[t].iter : x <= y
                      rest == thr[t].iter \ {i}
                      w2 == slot_disconnect(World, i, o)
                  IN  /\ SetWorld(IF rest = {} THEN [w2 EXCEPT !.m[o] = {}] ELSE w2)
                      /\ thr' = [thr EXCEPT ![t].iter = rest,
                                            ![t].pc = IF rest = {} THEN "unlock"
                                                      ELSE "peer_lock"]
    /\ UNCHANGED <<sigState, slotState, nextId, stVars, tkVars, brVars, mutex>>

\* ~lock_block of the function entered: the call returns; after ~has_slots
\* the slot-owner is gone.
GUnlock(t) ==
    /\ thr[t].pc = "unlock"
    /\ mutex' = mtg_unlock
    /\ slotState' = IF thr[t].op = "destroy_slot"
                    THEN [slotState EXCEPT ![thr[t].o] = "dead"] ELSE slotState
    /\ thr' = [thr EXCEPT ![t] = NoThread]
    /\ UNCHANGED <<sigState, m_connected_slots, m_senders, nextId,
                   stVars, tkVars, brVars>>

\* mtg::mtg(): a thread constructs one more signal or has_slots, and the
\* constructor calls pthread_mutex_init on g_mutex while it is locked.
\* That is undefined; the mutex comes out of it unlocked.
GConstruct(t) ==
    /\ thr[t].pc = "idle"
    /\ mutex.g # 0
    /\ mutex' = mtg_unlock
    /\ UNCHANGED <<objVars, stVars, tkVars, brVars, thr>>

NextMTG ==
    \/ \E t \in Threads, s \in Signals \cup {0}, o \in Slots \cup {0},
          op \in {"connect", "disconnect", "disconnect_all", "destroy_slot"} :
          GCall(t, op, s, o)
    \/ \E t \in Threads : GLock(t)
    \/ \E t \in Threads : GPeerLock(t)
    \/ \E t \in Threads : GUnlock(t)
    \/ \E t \in Threads : GConstruct(t)

SpecMTG == InitMT /\ [][NextMTG]_vars

-----------------------------------------------------------------------------
(* Properties of the multi_threaded_global program.                        *)

\* Thread t is the only one in a call.
Alone(t) == \A u \in Threads \ {t} : thr[u].pc = "idle"

\* C23: a thread that is alone in a call of connect, disconnect, signal
\* disconnect_all or ~has_slots never stands before a lock_block on the
\* global mutex while holding that mutex itself, where it would not return.
SingleThreadCallReturns ==
    \A t \in Threads :
        (Alone(t) /\ thr[t].pc \in {"lock", "peer_lock"}) => mutex.g # t

-----------------------------------------------------------------------------
(* Properties of removal against emit, multi_threaded_local.               *)

\* Thread u is in s.disconnect(..) or s.disconnect_all().
Removes(u, s) ==
    thr[u].op \in {"disconnect", "disconnect_all"} /\ thr[u].s = s

\* C24: while an emit pass on S is in progress in one thread, the
\* connection it is about to invoke is in S's registry, and every other
\* thread that is in S.disconnect(O) or S.disconnect_all() still stands
\* before its lock_block: a remover has removed nothing, and has not
\* returned, while the pass runs, and a pass never stands at a connection
\* that has been removed.
RemovedConnectionNotInvoked ==
    \A t \in Threads :
        thr[t].pc = "emit_loop" =>
            /\ thr[t].it # END =>
                 InList(m_connected_slots[thr[t].s], thr[t].it)
            /\ \A u \in Threads \ {t} :
                 Removes(u, thr[t].s) =>
                     thr[u].pc \in {"lock_disconnect", "lock_disconnect_all"}

\* C24 witness: an emit pass stands at a connection while another thread
\* waits to disconnect that connection's target from the same signal.
RemoverWaitsForEmitPass ==
    \E t \in Threads, u \in Threads :
        /\ thr[t].pc = "emit_loop" /\ thr[t].it # END
        /\ thr[u].op = "disconnect" /\ thr[u].s = thr[t].s
        /\ thr[u].pc = "lock_disconnect"
        /\ LET list == m_connected_slots[thr[t].s]
           IN  /\ InList(list, thr[t].it)
               /\ list[IndexOf(list, thr[t].it)].dest = thr[u].o

-----------------------------------------------------------------------------
(* Properties of slot-owner copy construction, single_threaded.            *)

\* The connections of list that target o, in their order.
Only(list, o) == SelectSeq(list, LAMBDA x : x.dest = o)

\* The connection objects in all registries of w.
AllIds(w) == UNION {Range(Ids(w.c[s])) : s \in Signals}

\* C25: has_slots(const has_slots&) returns, and on every signal of O's
\* back-reference set the registry is the old registry followed by one new
\* connection object that targets O' for each connection that targeted O,
\* in their order and with the same callable, and by nothing else; the
\* registries of the other signals are unchanged, the back-reference set of
\* O' is that of O and those of the other slot-owners are unchanged.
CopySlotAppendsOnePerConnection ==
    last.op = "copy_slot" =>
        /\ \A s \in Signals :
             LET was == pre.c[s]
                 now == m_connected_slots[s]
                 src == Only(was, last.o)
             IN  IF s \in pre.m[last.o]
                 THEN /\ Len(now) = Len(was) + Len(src)
                      /\ SubSeq(now, 1, Len(was)) = was
                      /\ \A j \in DOMAIN src :
                           /\ now[Len(was) + j].dest = last.n
                           /\ now[Len(was) + j].fn = src[j].fn
                           /\ now[Len(was) + j].id \notin AllIds(pre)
                 ELSE now = was
        /\ \A s1 \in Signals, s2 \in Signals :
             \A i \in DOMAIN m_connected_slots[s1], j \in DOMAIN m_connected_slots[s2] :
                 m_connected_slots[s1][i].id = m_connected_slots[s2][j].id =>
                     (s1 = s2 /\ i = j)
        /\ m_senders[last.n] = pre.m[last.o]
        /\ \A o \in Slots \ {last.n} : m_senders[o] = pre.m[o]

\* C25 witness: the copied slot-owner had two connections on one signal.
CopySlotOfTwiceConnected ==
    /\ last.op = "copy_slot"
    /\ \E s \in Signals : Len(Only(pre.c[s], last.o)) = 2

-----------------------------------------------------------------------------
(* Properties of tasklet handles.                                          *)

\* The frame has been destroyed.
Destroyed(c) == frame[c].st \in {"destroyed", "destroyed_twice"}

\* C26: no coroutine frame has been destroyed twice, and no tasklet whose
\* handle is not null holds the handle of a destroyed frame.
FrameDestroyedAtMostOnce ==
    /\ \A c \in Tasks : frame[c].st # "destroyed_twice"
    /\ \A h \in Handles : coro[h] # nullptr => ~Destroyed(coro[h])

-----------------------------------------------------------------------------
(* Properties of signal copy construction, multi_threaded_local.           *)

\* C27: a copy constructor that walks the list of its source never stands
\* at a connection that a disconnect on the source has removed (and
\* deleted) since the walk began.
CopyNeverReadsRemovedConnection ==
    \A t \in Threads :
        (thr[t].pc = "copy_loop" /\ thr[t].it # END) =>
            InList(m_connected_slots[thr[t].s], thr[t].it)

====
